---- MODULE Spec2Model ----
(***************************************************************************)
(* The asynchronous geocoding pipeline of CyberLabCaseTracker.py: the      *)
(* map refresh (load_map_markers), the background geocode worker thread    *)
(* (_geocode_locations_worker), the Tk poll tick                           *)
(* (_process_geocoding_results), the geocode cache and the shutdown        *)
(* handler, as one state machine of a UI thread and worker threads.        *)
(*                                                                         *)
(* Python strings are modelled as sequences of one-character strings, so   *)
(* that str.strip() and the f-string concatenations are computed.          *)
(***************************************************************************)
EXTENDS Integers, Sequences, FiniteSets, TLC

\* ------------------------------------------------------------------ bounds

\* Number of user-triggered handlers (submit, icon change, focal state change)
\* that run after start-up; start-up itself refreshes the map twice.
MaxUserOps == 1

\* Number of entries the undo stack of the View Data tab may hold.
MaxHistory == 2

\* Number of case records that share one location key.
MaxGrouped == 3

\* ------------------------------------------------------------------ values

\* Python's None, as a value comparable with the modelled strings.
None == <<"<None>">>

J == <<"J">>
B == <<"B">>
M == <<"M">>

\* Values of the city_of_offense and state_of_offense columns.
CityValues == {None, <<>>, <<" ">>, J, <<"J", " ">>, B}
StateValues == {<<>>, M, <<" ", "M">>}

\* (latitude, longitude) pairs the geocoding provider can answer with.
Coords == {<<30, 88>>, <<32, 90>>}

\* Focal states offered by the combobox (US_STATE_ABBREVIATIONS), and "" for
\* no focal state.
FocalStates == {"MS"}

CaseRecord(city, state) == [city_of_offense |-> city, state_of_offense |-> state]

\* Case records a user can submit through the entry form.
SubmittedCases == {CaseRecord(B, M), CaseRecord(<<>>, M)}

\* ------------------------------------------------------------------ strings

RECURSIVE LStrip(_)
LStrip(s) == IF s = <<>> THEN s
             ELSE IF Head(s) = " " THEN LStrip(Tail(s)) ELSE s

RECURSIVE RStrip(_)
RStrip(s) == IF s = <<>> THEN s
             ELSE IF s[Len(s)] = " " THEN RStrip(SubSeq(s, 1, Len(s) - 1)) ELSE s

\* str.strip()
strip(s) == RStrip(LStrip(s))

\* (x or '')
OrEmpty(x) == IF x = None THEN <<>> ELSE x

\* f"{city}|{state}"
LocationKey(city, state) == city \o <<"|">> \o state

\* ------------------------------------------------------------------ case store

\* Python's True and False, as values comparable with the modelled strings.
PyTrue == <<"<True>">>
PyFalse == <<"<False>">>

Yes == <<"Y", "e", "s">>
No == <<"N", "o">>

\* dict.get(key): None when the key is missing.
Get(d, key) == IF key \in DOMAIN d THEN d[key] ELSE None

\* The columns of the case_log table that are modelled.
Columns == {"id", "case_number", "city_of_offense", "state_of_offense",
            "offense_type", "data_recovered", "created_at"}

\* An exclusion list that names the id only.
NotUpdated_id == {"id"}

\* Columns update_case_db leaves out of its SET clause.
NotUpdated == {"id", "case_number", "created_at"}

\* "Yes" if dr_val is True else ("No" if dr_val is False else "")
YesNo(dr_val) ==
  IF dr_val = PyTrue THEN Yes ELSE IF dr_val = PyFalse THEN No ELSE <<>>

\* created_at of the rows the database holds at start-up, and
\* datetime.now().strftime(...) while the application runs.
Earlier == <<"earlier">>
Now == <<"now">>

\* The case_log table at start-up: the rows of the given case records, with
\* ids in rowid order.
Table(cases) ==
  [i \in 1..Len(cases) |->
     [id |-> i,
      case_number |-> Get(cases[i], "case_number"),
      city_of_offense |-> Get(cases[i], "city_of_offense"),
      state_of_offense |-> Get(cases[i], "state_of_offense"),
      offense_type |-> Get(cases[i], "offense_type"),
      data_recovered |-> Get(cases[i], "data_recovered"),
      created_at |-> Earlier]]

\* The id AUTOINCREMENT gives the next row (rows are only ever removed by
\* dropping the table).
NextId(cases) ==
  IF cases = <<>> THEN 1
  ELSE 1 + (CHOOSE n \in {cases[i].id : i \in 1..Len(cases)} :
              \A i \in 1..Len(cases) : cases[i].id <= n)

\* add_case_db: the INSERT; data_recovered is converted from the boolean it
\* expects, created_at is the current time.
add_case_db(cases, case_data) ==
  Append(cases,
    [id |-> NextId(cases),
     case_number |-> IF Get(case_data, "case_number") # None
                     THEN strip(Get(case_data, "case_number")) ELSE None,
     city_of_offense |-> Get(case_data, "city_of_offense"),
     state_of_offense |-> Get(case_data, "state_of_offense"),
     offense_type |-> Get(case_data, "offense_type"),
     data_recovered |-> YesNo(Get(case_data, "data_recovered")),
     created_at |-> Now])

\* str(n): the decimal text of an integer.
Digits(n) == <<"digits", n>>

\* A value bound to the ? of "WHERE id = ?": an integer or a text.
IntParam(n) == [int |-> n]
TextParam(t) == [text |-> t]

\* id = ? on the INTEGER PRIMARY KEY column: a text that is the decimal text
\* of an integer is converted by the column affinity, any other text equals
\* no id.
MatchesId(row_id, param) ==
  IF "int" \in DOMAIN param THEN param.int = row_id
  ELSE param.text = Digits(row_id)

\* get_case_by_id_db: dict(row) of the row with the id, or None.
get_case_by_id_db(cases, case_id) ==
  IF \E i \in 1..Len(cases) : MatchesId(cases[i].id, case_id)
  THEN cases[CHOOSE i \in 1..Len(cases) : MatchesId(cases[i].id, case_id)]
  ELSE None

\* update_case_db: what it returns, the table afterwards, and the caller's
\* dict afterwards (data_recovered is converted in place).
update_case_db(cases, case_id, case_data) ==
  LET fields_to_update == DOMAIN case_data \ NotUpdated
      converted == [f \in DOMAIN case_data |->
                      IF f = "data_recovered" THEN YesNo(case_data[f])
                      ELSE case_data[f]]
  IN IF fields_to_update = {} \/ ~(fields_to_update \subseteq Columns)
     THEN [ok |-> FALSE, cases |-> cases, case_data |-> case_data]
     ELSE [ok |-> TRUE,
           cases |-> [i \in 1..Len(cases) |->
                        IF MatchesId(cases[i].id, case_id)
                        THEN [f \in DOMAIN cases[i] |->
                                IF f \in fields_to_update THEN converted[f]
                                ELSE cases[i][f]]
                        ELSE cases[i]],
           case_data |-> converted]

\* delete_case_db: the table after DELETE FROM case_log WHERE id = ? (it
\* returns True whether or not a row matched).
RECURSIVE delete_case_db(_, _)
delete_case_db(cases, case_id) ==
  IF cases = <<>> THEN <<>>
  ELSE IF MatchesId(Head(cases).id, case_id)
       THEN delete_case_db(Tail(cases), case_id)
       ELSE <<Head(cases)>> \o delete_case_db(Tail(cases), case_id)

\* refresh_data_view: the Treeview rows of the cases, in table order. An item
\* has the identifier Tk gives it (no iid is passed to insert) and the column
\* values, the first of which is the text of the database id.
refresh_data_view(cases) ==
  [i \in 1..Len(cases) |->
     [iid |-> <<"I", i>>, values |-> <<Digits(cases[i].id)>>]]

\* hash_password: PBKDF2 of the password with the salt.
hash_password(password, salt) == <<"pbkdf2_hmac">> \o salt \o <<":">> \o password

\* The password whose hash the settings table holds, and its salt.
StoredPassword == <<"p">>
Salt == <<"s">>

\* A check that accepts every password.
verify_password_any(password) == TRUE

\* verify_password
verify_password(password) ==
  hash_password(password, Salt) = hash_password(StoredPassword, Salt)

\* What simpledialog.askstring can return: None (cancelled), an empty, a
\* wrong or the right password.
PasswordInputs == {None, <<>>, <<"w">>, StoredPassword}

\* A pop() that does not hand its entry on.
MoveTop_drop(from, to) ==
  [from |-> SubSeq(from, 1, Len(from) - 1), to |-> to]

\* entry = from.pop(); to.append(entry)
MoveTop(from, to) ==
  [from |-> SubSeq(from, 1, Len(from) - 1),
   to |-> Append(to, from[Len(from)])]

\* A stack entry is the tuple object (prev_data, new_data): ref is its
\* identity, prev_data and new_data the dicts it refers to as they are now
\* (update_case_db changes the dict it is given in place). NewRef is the
\* identity of a tuple created while the entries of stack are alive.
NewRef(stack) ==
  CHOOSE n \in 1..(Len(stack) + 1) :
    \A i \in 1..Len(stack) : stack[i].ref # n

\* push_view_edit_history(self, prev_data, new_data) called with the
\* positional arguments args: a TypeError unless there are two of them.
push_view_edit_history(undo_stack, redo_stack, args) ==
  IF Len(args) # 2
  THEN [raised |-> TRUE, undo_stack |-> undo_stack, redo_stack |-> redo_stack]
  ELSE [raised |-> FALSE,
        undo_stack |-> Append(undo_stack,
                              [ref |-> NewRef(undo_stack),
                               prev_data |-> args[1], new_data |-> args[2]]),
        redo_stack |-> <<>>]

\* The stack after update_case_db has converted, in place, the dict that the
\* field which of the top entry refers to.
TopConverted(stack, which, case_data) ==
  [stack EXCEPT ![Len(stack)] = [@ EXCEPT ![which] = case_data]]

\* ------------------------------------------------------------------ state

VARIABLES
  case_log,                   \* rows of the case_log table, in rowid order
  geocache,                   \* the rows of the geocache table
  phase,                      \* "create_widgets", "init", "mainloop",
                              \* "cleared", "closed"
  ui,                         \* where the UI thread is: the handler's position,
                              \* its caller, the entries its for loop consumed
  map_widget,                 \* markers held by the map widget, as a bag
  map_markers,                \* self.map_markers: (city, state) -> marker
  grouped_cases_by_location,  \* self._grouped_cases_by_location
  geocoding_queue,            \* the queue.Queue self.geocoding_queue names
  geocoding_thread,           \* self.geocoding_thread: 0 (None) or a thread
  threads,                    \* the worker thread objects: id -> its state
  geocoded_results,           \* self._geocoded_results
  processing_queue,           \* self.processing_queue
  geocoding_after_id,         \* self._geocoding_after_id: 0 (None) or an id
  after_pending,              \* scheduled _process_geocoding_results timers
  focus_after_pending,        \* the after(500) focus callback is scheduled
  map_focal_state,            \* the persisted map_focal_state preference
  map_status_label,           \* text of self.map_status_label
  provider,                   \* what the geocoding provider has seen
  env,                        \* how the provider and the database behave
  user_ops,                   \* user-triggered handlers run so far
  tree,                       \* the items of the View Data Treeview
  editing_case_id,            \* self.editing_case_id
  view_edit_undo_stack,       \* self._view_edit_undo_stack
  view_edit_redo_stack,       \* self._view_edit_redo_stack
  status,                     \* status bar text, as last set by a case store
                              \* handler
  last_done                   \* history: the markers on the map when the
                              \* last refresh began, if the one before it had
                              \* finished and the case records are the same

vars == <<case_log, geocache, phase, ui, map_widget, map_markers,
          grouped_cases_by_location, geocoding_queue, geocoding_thread,
          threads, geocoded_results, processing_queue, geocoding_after_id,
          after_pending, focus_after_pending, map_focal_state,
          map_status_label, provider, env, user_ops, tree, editing_case_id,
          view_edit_undo_stack, view_edit_redo_stack, status, last_done>>

\* The state of the View Data tab and the entry form.
ViewVars == <<tree, editing_case_id, view_edit_undo_stack,
              view_edit_redo_stack, status>>

\* What load_map_markers assigns before its cache loop.
RefreshVars == <<ui, map_widget, map_markers, grouped_cases_by_location,
                 geocoding_queue, threads, last_done>>

\* What the case store handlers leave alone.
PipelineVars == <<phase, geocoding_thread, geocoded_results, processing_queue,
                  geocoding_after_id, after_pending, focus_after_pending,
                  map_focal_state, map_status_label, provider, env>>


\* ------------------------------------------------------------------ helpers

EmptyMap == [k \in {} |-> 0]

\* One more copy of e in the bag b.
BagAdd(b, e) ==
  [x \in (DOMAIN b) \cup {e} |->
     IF x = e THEN (IF e \in DOMAIN b THEN b[e] + 1 ELSE 1) ELSE b[x]]

\* dict assignment d[k] = v
MapSet(d, k, v) == [x \in (DOMAIN d) \cup {k} |-> IF x = k THEN v ELSE d[x]]

\* Every (city, state) key the modelled case records can group under.
AllKeys == {<<J, M>>, <<B, M>>}

\* A grouping that never finds a key it has already seen.
KeyIndex_none(grouped, key) == 0

\* Index of key in the grouped dict (0 when absent).
KeyIndex(grouped, key) ==
  IF \E i \in 1..Len(grouped) : grouped[i].key = key
  THEN CHOOSE i \in 1..Len(grouped) : grouped[i].key = key
  ELSE 0

\* The grouping loop of load_map_markers: a dict in insertion order, as a
\* sequence of [key, cases] entries.
RECURSIVE GroupCases(_, _)
GroupCases(cases, grouped) ==
  IF cases = <<>> THEN grouped
  ELSE LET case == Head(cases)
           city == strip(OrEmpty(case.city_of_offense))
           state == strip(OrEmpty(case.state_of_offense))
           key == <<city, state>>
           i == KeyIndex(grouped, key)
       IN IF city = <<>> \/ state = <<>>
          THEN GroupCases(Tail(cases), grouped)
          ELSE IF i = 0
               THEN GroupCases(Tail(cases),
                               Append(grouped, [key |-> key, cases |-> <<case>>]))
               ELSE GroupCases(Tail(cases),
                               [grouped EXCEPT ![i].cases = Append(@, case)])

\* A row of the geocache table (last_accessed is written and never read).
CacheRow(location_key, latitude, longitude) ==
  [location_key |-> location_key, latitude |-> latitude,
   longitude |-> longitude]

\* SELECT ... FROM geocache WHERE location_key = ?
RowsOf(cache, location_key) == {r \in cache : r.location_key = location_key}

\* The location keys that have a row in the geocache table.
CachedKeys(cache) == {r.location_key : r \in cache}

\* A lookup that misses whatever the table holds.
get_cached_location_db_miss(cache, location_key) == None

\* get_cached_location_db: (row[0], row[1]) of the row fetchone() returns, or
\* None.
get_cached_location_db(cache, location_key) ==
  IF RowsOf(cache, location_key) # {}
  THEN LET row == CHOOSE r \in RowsOf(cache, location_key) : TRUE
       IN <<row.latitude, row.longitude>>
  ELSE None

\* A write into a cache that holds one entry: the other rows are evicted.
add_cached_location_db_evict(cache, location_key, latitude, longitude) ==
  {CacheRow(location_key, latitude, longitude)}

\* A write that keeps the row a key already has (INSERT OR IGNORE).
add_cached_location_db_ignore(cache, location_key, latitude, longitude) ==
  IF RowsOf(cache, location_key) # {}
  THEN cache
  ELSE cache \cup {CacheRow(location_key, latitude, longitude)}

\* A write into a table without the primary key (plain INSERT).
add_cached_location_db_insert(cache, location_key, latitude, longitude) ==
  cache \cup {CacheRow(location_key, latitude, longitude)}

\* add_cached_location_db: INSERT OR REPLACE INTO geocache; location_key is
\* the PRIMARY KEY, so the row that has the key is replaced.
add_cached_location_db(cache, location_key, latitude, longitude) ==
  (cache \ RowsOf(cache, location_key))
    \cup {CacheRow(location_key, latitude, longitude)}

\* Code points of the characters offense types are written with.
Ord(ch) ==
  CASE ch = " " -> 32
    [] ch = "F" -> 70
    [] ch = "T" -> 84

\* a < b on Python strings.
RECURSIVE StrLess(_, _)
StrLess(a, b) ==
  IF b = <<>> THEN FALSE
  ELSE IF a = <<>> THEN TRUE
  ELSE IF Ord(Head(a)) # Ord(Head(b)) THEN Ord(Head(a)) < Ord(Head(b))
  ELSE StrLess(Tail(a), Tail(b))

\* sorted(set_of_strings)
RECURSIVE sorted(_)
sorted(strings) ==
  IF strings = {} THEN <<>>
  ELSE LET least == CHOOSE x \in strings :
                      \A y \in strings \ {x} : StrLess(x, y)
       IN <<least>> \o sorted(strings \ {least})

\* sep.join(strings)
RECURSIVE join(_, _)
join(sep, strings) ==
  IF strings = <<>> THEN <<>>
  ELSE IF Len(strings) = 1 THEN strings[1]
  ELSE strings[1] \o sep \o join(sep, Tail(strings))

\* The truth value of a string or None in an if.
Truthy(x) == x # None /\ x # <<>>

\* 'No offenses recorded', as a text no offense type equals.
NoOffenses == <<"No offenses recorded">>

\* self._grouped_cases_by_location.get((city, state), [])
GroupedGet(grouped, key) ==
  IF KeyIndex(grouped, key) = 0 THEN <<>>
  ELSE grouped[KeyIndex(grouped, key)].cases

\* offense_str of _place_map_marker (lines 1342-1343).
offense_str(city_cases) ==
  LET offenses ==
        sorted({strip(OrEmpty(Get(city_cases[i], "offense_type"))) :
                  i \in {j \in 1..Len(city_cases) :
                           Truthy(Get(city_cases[j], "offense_type"))}})
  IN IF offenses # <<>> THEN join(<<",", " ">>, offenses) ELSE NoOffenses

\* _place_map_marker: set_marker on the map widget and the entry of
\* self.map_markers; m is the pair [map_widget, map_markers], grouped is
\* self._grouped_cases_by_location, info is what the marker shows on a click.
place_map_marker(m, grouped, city, state, coords) ==
  LET marker == [key |-> <<city, state>>, position |-> coords,
                 info |-> [city |-> city, state |-> state,
                           offenses |->
                             offense_str(GroupedGet(grouped, <<city, state>>))]]
  IN [map_widget |-> BagAdd(m.map_widget, marker),
      map_markers |-> MapSet(m.map_markers, <<city, state>>, marker)]

\* The cache loop of load_map_markers over grouped[i..]: markers placed for
\* the cache hits, misses appended to pending (and put on the queue).
RECURSIVE FillFrom(_, _, _, _, _)
FillFrom(grouped, i, cache, m, pending) ==
  IF i > Len(grouped) THEN [m |-> m, pending |-> pending]
  ELSE LET city == grouped[i].key[1]
           state == grouped[i].key[2]
           coords == get_cached_location_db(cache, LocationKey(city, state))
       IN IF coords # None
          THEN FillFrom(grouped, i + 1, cache,
                        place_map_marker(m, grouped, city, state, coords),
                        pending)
          ELSE FillFrom(grouped, i + 1, cache, m,
                        Append(pending, <<city, state>>))

\* threading.Thread.is_alive(): started and run() has not returned.
is_alive(t) == threads[t].pc # "dead"

\* The identifier root.after returns: one no pending timer has.
NewAfterId(pending) ==
  CHOOSE i \in 1..(Cardinality(pending) + 1) :
    i \notin pending /\ \A j \in 1..(i - 1) : j \in pending

\* focus_map_on_state: a geocoding-provider call made by the calling (UI)
\* thread whenever a focal state is given.
focus_map_on_state(prov, state) ==
  IF state = "" THEN prov ELSE [prov EXCEPT !.ui_calls = TRUE]


\* ------------------------------------------------------------------ Init

\* The UI thread between two handlers.
UIIdleState == [pc |-> "idle", caller |-> "none", iterated |-> <<>>]

\* No finished refresh to compare the next one with.
NotDone == [valid |-> FALSE, markers |-> {}]

\* CaseLogApp.__init__ up to create_widgets: the attribute defaults, over the
\* database and preferences the application may find.
InitApp ==
  /\ phase = "create_widgets"
  /\ ui = UIIdleState
  /\ map_widget = EmptyMap
  /\ map_markers = EmptyMap
  /\ grouped_cases_by_location = <<>>
  /\ geocoding_queue = <<>>
  /\ geocoding_thread = 0
  /\ threads = EmptyMap
  /\ geocoded_results = <<>>
  /\ processing_queue = FALSE
  /\ geocoding_after_id = 0
  /\ after_pending = {}
  /\ focus_after_pending = FALSE
  /\ map_status_label = <<"">>
  /\ provider = [ui_calls |-> FALSE, worker_calls |-> "none"]
  /\ user_ops = 0
  /\ last_done = NotDone
  /\ tree = <<>>
  /\ editing_case_id = None
  /\ view_edit_undo_stack = <<>>
  /\ view_edit_redo_stack = <<>>
  /\ status = <<"Initializing...">>

\* Outcomes of geolocator.geocode: a location, None, or an exception.
Match(c) == [kind |-> "match", coords |-> c]
NoMatch == [kind |-> "none", coords |-> <<0, 0>>]
Raise == [kind |-> "raise", coords |-> <<0, 0>>]
Matches == {Match(c) : c \in Coords}

\* The database and preferences the application may find at start-up.
Config(cases, cache, focal) ==
  [case_log |-> cases, geocache |-> cache, map_focal_state |-> focal]

\* An empty geocache table, and one that holds a row for J|M.
NoCache == {}

JCached == {CacheRow(LocationKey(J, M), 30, 88)}

InitialConfigs ==
  { Config(<<>>, NoCache, ""),
    Config(<<>>, JCached, "MS"),
    Config(<<CaseRecord(J, M)>>, JCached, ""),
    Config(<<CaseRecord(J, M), CaseRecord(<<"J", " ">>, <<" ", "M">>)>>,
           NoCache, ""),
    Config(<<CaseRecord(<<" ">>, M), CaseRecord(B, M)>>, NoCache, ""),
    Config(<<CaseRecord(None, M), CaseRecord(J, <<>>)>>, NoCache, ""),
    Config(<<CaseRecord(J, M), CaseRecord(B, M)>>, JCached, "") }

InitConfig(configs) ==
  \E c \in configs :
    /\ case_log = Table(c.case_log)
    /\ geocache = c.geocache
    /\ map_focal_state = c.map_focal_state

\* A provider that may answer any query with a match, with no match or with
\* an exception, and a database whose writes succeed.
AnyAnswer == [answers |-> [k \in AllKeys |-> Matches \cup {NoMatch, Raise}],
              cache_writes |-> {TRUE}]

Init ==
  /\ InitApp
  /\ InitConfig(InitialConfigs)
  /\ env = AnyAnswer

\* ------------------------------------------------------------------ refresh

UIIdle == ui.pc = "idle"

\* The last refresh has finished: polling has ended, no poll tick is pending
\* and no worker thread is alive.
Finished ==
  /\ phase = "mainloop" /\ ui.pc = "idle"
  /\ processing_queue = FALSE
  /\ after_pending = {}
  /\ \A t \in DOMAIN threads : threads[t].pc = "dead"

\* A refresh that empties the Queue in place instead of binding a new one:
\* a worker holding the Queue sees it emptied.
LoadMapMarkersBegin_inplace(caller, cases) ==
  /\ map_widget' = EmptyMap
  /\ grouped_cases_by_location' = GroupCases(cases, <<>>)
  /\ map_markers' = EmptyMap
  /\ geocoding_queue' = <<>>
  /\ threads' = threads
  /\ last_done' = IF Finished /\ cases = case_log
                  THEN [valid |-> TRUE, markers |-> DOMAIN map_widget]
                  ELSE NotDone
  /\ ui' = [pc |-> "load_fill", caller |-> caller, iterated |-> <<>>]

\* load_map_markers, from delete_all_markers to the fresh, still empty
\* queue.Queue(); cases is what get_all_cases_db() returns, and the caller is
\* remembered for what follows the call. A worker that has loaded
\* self.geocoding_queue and not yet called it is left holding the old Queue.
LoadMapMarkersBegin(caller, cases) ==
  /\ map_widget' = EmptyMap
  /\ grouped_cases_by_location' = GroupCases(cases, <<>>)
  /\ map_markers' = EmptyMap
  /\ geocoding_queue' = <<>>
  /\ threads' = [t \in DOMAIN threads |->
                   IF threads[t].ref = "self"
                   THEN [threads[t] EXCEPT !.ref = "old",
                                           !.old = geocoding_queue]
                   ELSE threads[t]]
  /\ last_done' = IF Finished /\ cases = case_log
                  THEN [valid |-> TRUE, markers |-> DOMAIN map_widget]
                  ELSE NotDone
  /\ ui' = [pc |-> "load_fill", caller |-> caller, iterated |-> <<>>]

\* Thread objects that still matter once self.geocoding_thread is rebound:
\* the ones still running (a finished, unreferenced Thread is garbage).
Kept(ths) == {t \in DOMAIN ths : ths[t].pc # "dead"}

NewThreadId(ths) ==
  CHOOSE i \in 1..(Cardinality(Kept(ths)) + 1) :
    i \notin Kept(ths) /\ \A j \in 1..(i - 1) : j \in Kept(ths)

\* threading.Thread(target=self._geocode_locations_worker).start(); stale
\* tells whether the item in hand was popped from a replaced Queue.
StartThread(ths, id) ==
  [t \in Kept(ths) \cup {id} |->
     IF t = id THEN [pc |-> "init", item |-> <<>>, location |-> None,
                     ref |-> "none", old |-> <<>>, stale |-> FALSE]
     ELSE ths[t]]

\* A refresh that starts a worker whether or not one is alive.
NeedNewThread_always == TRUE

\* The thread start of load_map_markers: a new worker unless the last one is
\* alive.
NeedNewThread == geocoding_thread = 0 \/ ~is_alive(geocoding_thread)

\* A refresh that starts polling whether or not anything is pending.
HasPending_always(pending) == TRUE

\* if self._pending_marker_locations
HasPending(pending) == pending # <<>>

\* load_map_markers, from the cache loop to its return, and then the code of
\* the caller that follows the call.
LoadMapMarkersFill ==
  /\ UNCHANGED <<last_done, ViewVars>>
  /\ ui.pc = "load_fill"
  /\ phase # "closed"
  /\ LET r == FillFrom(grouped_cases_by_location, 1, geocache,
                       [map_widget |-> map_widget, map_markers |-> map_markers],
                       <<>>)
         pending == r.pending
         ncached == Cardinality(DOMAIN r.m.map_markers)
         id == NewAfterId(after_pending)
     IN /\ map_widget' = r.m.map_widget
        /\ map_markers' = r.m.map_markers
        /\ geocoding_queue' = geocoding_queue \o pending
        /\ IF HasPending(pending)
           THEN /\ IF NeedNewThread
                   THEN /\ threads' = StartThread(threads, NewThreadId(threads))
                        /\ geocoding_thread' = NewThreadId(threads)
                   ELSE UNCHANGED <<threads, geocoding_thread>>
                /\ processing_queue' = TRUE
                /\ geocoding_after_id' = id
                /\ after_pending' = after_pending \cup {id}
           ELSE /\ processing_queue' = FALSE
                /\ UNCHANGED <<threads, geocoding_thread, geocoding_after_id,
                               after_pending>>
        /\ map_status_label' =
             IF ui.caller = "create_map_widgets" /\ ncached = 0
             THEN <<"0 locations loaded">>
             ELSE IF pending # <<>>
                  THEN <<"cached, to geocode", ncached, Len(pending)>>
                  ELSE <<"locations loaded (all cached)", ncached>>
  /\ phase' = CASE ui.caller = "create_map_widgets" -> "init"
                [] ui.caller = "init" -> "mainloop"
                [] ui.caller = "clear_application_data_prompt" -> "cleared"
                [] OTHER -> phase
  /\ ui' = UIIdleState
  /\ UNCHANGED <<case_log, geocache, grouped_cases_by_location,
                 geocoded_results, focus_after_pending, map_focal_state,
                 provider, env, user_ops>>

\* create_map_widgets: the focus timer, the map widget, the focus on the
\* persisted focal state, and the first load_map_markers.
CreateMapWidgets ==
  /\ phase = "create_widgets"
  /\ UIIdle
  /\ focus_after_pending' = TRUE
  /\ provider' = focus_map_on_state(provider, map_focal_state)
  /\ LoadMapMarkersBegin("create_map_widgets", case_log)
  /\ UNCHANGED ViewVars
  /\ UNCHANGED <<case_log, geocache, phase, geocoding_thread,
                 geocoded_results, processing_queue, geocoding_after_id,
                 after_pending, map_focal_state, map_status_label,
                 env, user_ops>>

\* __init__ after create_widgets: refresh_data_view and the second
\* load_map_markers; the window protocol is bound and the main loop entered
\* when it returns.
InitLoadMapMarkers ==
  /\ phase = "init"
  /\ UIIdle
  /\ tree' = refresh_data_view(case_log)
  /\ UNCHANGED <<editing_case_id, view_edit_undo_stack, view_edit_redo_stack,
                 status>>
  /\ LoadMapMarkersBegin("init", case_log)
  /\ UNCHANGED <<case_log, geocache, phase, geocoding_thread,
                 geocoded_results, processing_queue, geocoding_after_id,
                 after_pending, focus_after_pending, map_focal_state,
                 map_status_label, provider, env, user_ops>>


\* ------------------------------------------------------------------ worker

Running == phase # "closed"

\* Tk dispatches timers: in root.mainloop(), and in the event loop of the
\* message box that clear_application_data_prompt shows before it quits.
EventLoop == phase \in {"mainloop", "cleared"}

\* What the provider may answer for the query of key k.
Outcomes(k) == env.answers[k]

WorkerFrame ==
  UNCHANGED <<last_done, ViewVars, case_log, phase, ui, map_widget, map_markers,
              grouped_cases_by_location, geocoding_thread, processing_queue,
              geocoding_after_id, after_pending, focus_after_pending,
              map_focal_state, map_status_label, env, user_ops>>

\* _geocode_locations_worker up to the loop: self._geocoded_results = [].
WorkerInit(t) ==
  /\ Running /\ threads[t].pc = "init"
  /\ geocoded_results' = <<>>
  /\ threads' = [threads EXCEPT ![t].pc = "check"]
  /\ UNCHANGED <<geocache, geocoding_queue, provider>>
  /\ WorkerFrame

\* The Queue object a worker's loaded reference names: the one
\* self.geocoding_queue names now, or the one it named when it was loaded.
HeldQueue(t) ==
  IF threads[t].ref = "old" THEN threads[t].old ELSE geocoding_queue

\* while not self.geocoding_queue.empty(): the attribute is loaded.
WorkerCheck(t) ==
  /\ Running /\ threads[t].pc = "check"
  /\ threads' = [threads EXCEPT ![t].pc = "empty", ![t].ref = "self"]
  /\ UNCHANGED <<geocache, geocoding_queue, geocoded_results, provider>>
  /\ WorkerFrame

\* while not self.geocoding_queue.empty(): empty() is called on the loaded
\* Queue.
WorkerEmpty(t) ==
  /\ Running /\ threads[t].pc = "empty"
  /\ threads' = [threads EXCEPT
                   ![t].pc = IF HeldQueue(t) = <<>> THEN "return" ELSE "get",
                   ![t].ref = "none", ![t].old = <<>>]
  /\ UNCHANGED <<geocache, geocoding_queue, geocoded_results, provider>>
  /\ WorkerFrame

\* city, state = self.geocoding_queue.get_nowait(): the attribute is loaded.
WorkerGet(t) ==
  /\ Running /\ threads[t].pc = "get"
  /\ threads' = [threads EXCEPT ![t].pc = "get_nowait", ![t].ref = "self"]
  /\ UNCHANGED <<geocache, geocoding_queue, geocoded_results, provider>>
  /\ WorkerFrame

\* city, state = self.geocoding_queue.get_nowait(): get_nowait() is called on
\* the loaded Queue; queue.Empty breaks out of the loop.
WorkerGetNowait(t) ==
  /\ Running /\ threads[t].pc = "get_nowait"
  /\ IF HeldQueue(t) = <<>>
     THEN /\ threads' = [threads EXCEPT ![t].pc = "return",
                                        ![t].ref = "none", ![t].old = <<>>]
          /\ UNCHANGED geocoding_queue
     ELSE /\ threads' = [threads EXCEPT ![t].pc = "geocode",
                                        ![t].item = Head(HeldQueue(t)),
                                        ![t].stale = (threads[t].ref = "old"),
                                        ![t].ref = "none", ![t].old = <<>>]
          /\ geocoding_queue' = IF threads[t].ref = "old"
                                THEN geocoding_queue
                                ELSE Tail(geocoding_queue)
  /\ UNCHANGED <<geocache, geocoded_results, provider>>
  /\ WorkerFrame

\* A worker that sleeps only after a successful lookup.
WorkerGeocode_nosleep(t) ==
  /\ Running /\ threads[t].pc = "geocode"
  /\ provider' = [provider EXCEPT !.worker_calls = "called"]
  /\ \E outcome \in Outcomes(threads[t].item) :
       IF outcome.kind = "match"
       THEN threads' = [threads EXCEPT ![t].pc = "cache",
                                       ![t].location = outcome.coords]
       ELSE threads' = [threads EXCEPT ![t].pc = "check", ![t].item = <<>>,
                                       ![t].location = None,
                                       ![t].stale = FALSE]
  /\ UNCHANGED <<geocache, geocoding_queue, geocoded_results>>
  /\ WorkerFrame

\* location = geolocator.geocode(...): a match, no match, or an exception.
WorkerGeocode(t) ==
  /\ Running /\ threads[t].pc = "geocode"
  /\ provider' = [provider EXCEPT !.worker_calls = "called"]
  /\ \E outcome \in Outcomes(threads[t].item) :
       IF outcome.kind = "match"
       THEN threads' = [threads EXCEPT ![t].pc = "cache",
                                       ![t].location = outcome.coords]
       ELSE threads' = [threads EXCEPT ![t].pc = "sleep", ![t].location = None]
  /\ UNCHANGED <<geocache, geocoding_queue, geocoded_results>>
  /\ WorkerFrame

\* add_cached_location_db(f"{city}|{state}", ...): the row is written, or the
\* write fails and False is returned (and ignored).
WorkerCache(t) ==
  /\ Running /\ threads[t].pc = "cache"
  /\ \E written \in env.cache_writes :
       geocache' = IF written
                   THEN add_cached_location_db(geocache,
                          LocationKey(threads[t].item[1], threads[t].item[2]),
                          threads[t].location[1], threads[t].location[2])
                   ELSE geocache
  /\ threads' = [threads EXCEPT ![t].pc = "append"]
  /\ UNCHANGED <<geocoding_queue, geocoded_results, provider>>
  /\ WorkerFrame

\* A worker that also places the marker of its result itself.
WorkerAppend_places(t) ==
  /\ UNCHANGED <<last_done, ViewVars>>
  /\ Running /\ threads[t].pc = "append"
  /\ geocoded_results' = Append(geocoded_results,
         <<threads[t].item[1], threads[t].item[2], threads[t].location>>)
  /\ threads' = [threads EXCEPT ![t].pc = "sleep"]
  /\ LET m == place_map_marker(
                [map_widget |-> map_widget, map_markers |-> map_markers],
                grouped_cases_by_location,
                threads[t].item[1], threads[t].item[2], threads[t].location)
     IN /\ map_widget' = m.map_widget
        /\ map_markers' = m.map_markers
  /\ UNCHANGED <<geocache, geocoding_queue, provider>>
  /\ UNCHANGED <<case_log, phase, ui, grouped_cases_by_location,
                 geocoding_thread, processing_queue, geocoding_after_id,
                 after_pending, focus_after_pending, map_focal_state,
                 map_status_label, env, user_ops>>

\* self._geocoded_results.append((city, state, coords))
WorkerAppend(t) ==
  /\ Running /\ threads[t].pc = "append"
  /\ geocoded_results' = Append(geocoded_results,
         <<threads[t].item[1], threads[t].item[2], threads[t].location>>)
  /\ threads' = [threads EXCEPT ![t].pc = "sleep"]
  /\ UNCHANGED <<geocache, geocoding_queue, provider>>
  /\ WorkerFrame

\* time.sleep(1.0)
WorkerSleep(t) ==
  /\ Running /\ threads[t].pc = "sleep"
  /\ provider' = [provider EXCEPT !.worker_calls = "slept"]
  /\ threads' = [threads EXCEPT ![t].pc = "check", ![t].item = <<>>,
                                ![t].location = None, ![t].stale = FALSE]
  /\ UNCHANGED <<geocache, geocoding_queue, geocoded_results>>
  /\ WorkerFrame

\* The thread's run() returns: is_alive() is False from here on.
WorkerReturn(t) ==
  /\ Running /\ threads[t].pc = "return"
  /\ threads' = [threads EXCEPT ![t].pc = "dead"]
  /\ UNCHANGED <<geocache, geocoding_queue, geocoded_results, provider>>
  /\ WorkerFrame

Worker(t) ==
  \/ WorkerInit(t)
  \/ WorkerCheck(t)
  \/ WorkerEmpty(t)
  \/ WorkerGet(t)
  \/ WorkerGetNowait(t)
  \/ WorkerGeocode(t)
  \/ WorkerCache(t)
  \/ WorkerAppend(t)
  \/ WorkerSleep(t)
  \/ WorkerReturn(t)


\* ------------------------------------------------------------------ poll tick

\* The for loop of _process_geocoding_results over results[i..].
RECURSIVE PlaceResults(_, _, _, _)
PlaceResults(results, i, grouped, m) ==
  IF i > Len(results) THEN m
  ELSE PlaceResults(results, i + 1, grouped,
         place_map_marker(m, grouped, results[i][1], results[i][2],
                          results[i][3]))

\* The timer id fires: _process_geocoding_results up to the end of its for
\* loop, which places a marker for every result in the buffer (the entries
\* the loop consumed are kept in ui.iterated).
ProcessResultsBegin(id) ==
  /\ UNCHANGED <<last_done, ViewVars>>
  /\ EventLoop /\ UIIdle
  /\ id \in after_pending
  /\ after_pending' = after_pending \ {id}
  /\ IF geocoded_results # <<>>
     THEN LET m == PlaceResults(geocoded_results, 1,
                     grouped_cases_by_location,
                     [map_widget |-> map_widget, map_markers |-> map_markers])
          IN /\ map_widget' = m.map_widget
             /\ map_markers' = m.map_markers
             /\ ui' = [pc |-> "poll_clear", caller |-> "none",
                       iterated |-> geocoded_results]
     ELSE /\ UNCHANGED <<map_widget, map_markers>>
          /\ ui' = [pc |-> "poll_alive", caller |-> "none", iterated |-> <<>>]
  /\ UNCHANGED <<case_log, geocache, phase, grouped_cases_by_location,
                 geocoding_queue, geocoding_thread, threads, geocoded_results,
                 processing_queue, geocoding_after_id, focus_after_pending,
                 map_focal_state, map_status_label, provider,
                 env, user_ops>>

\* self._geocoded_results.clear() and the status text.
ProcessResultsClear ==
  /\ UNCHANGED <<last_done, ViewVars>>
  /\ Running /\ ui.pc = "poll_clear"
  /\ geocoded_results' = <<>>
  /\ map_status_label' = <<"locations loaded (with geocoding)",
                           Cardinality(DOMAIN map_markers)>>
  /\ ui' = [pc |-> "poll_alive", caller |-> "none", iterated |-> <<>>]
  /\ UNCHANGED <<case_log, geocache, phase, map_widget, map_markers,
                 grouped_cases_by_location, geocoding_queue, geocoding_thread,
                 threads, processing_queue, geocoding_after_id, after_pending,
                 focus_after_pending, map_focal_state, provider,
                 env, user_ops>>

\* A poll tick that goes on polling as long as a thread object exists.
ProcessResultsAlive_noliveness ==
  /\ UNCHANGED <<last_done, ViewVars>>
  /\ Running /\ ui.pc = "poll_alive"
  /\ IF geocoding_thread # 0
     THEN LET id == NewAfterId(after_pending)
          IN /\ geocoding_after_id' = id
             /\ after_pending' = after_pending \cup {id}
             /\ UNCHANGED <<processing_queue, map_status_label>>
     ELSE /\ processing_queue' = FALSE
          /\ map_status_label' = <<"locations loaded (all done)",
                                   Cardinality(DOMAIN map_markers)>>
          /\ UNCHANGED <<geocoding_after_id, after_pending>>
  /\ ui' = UIIdleState
  /\ UNCHANGED <<case_log, geocache, phase, map_widget, map_markers,
                 grouped_cases_by_location, geocoding_queue, geocoding_thread,
                 threads, geocoded_results, focus_after_pending,
                 map_focal_state, provider, env, user_ops>>

\* The is_alive() test of _process_geocoding_results: the next tick is
\* scheduled, or polling ends.
ProcessResultsAlive ==
  /\ UNCHANGED <<last_done, ViewVars>>
  /\ Running /\ ui.pc = "poll_alive"
  /\ IF geocoding_thread # 0 /\ is_alive(geocoding_thread)
     THEN LET id == NewAfterId(after_pending)
          IN /\ geocoding_after_id' = id
             /\ after_pending' = after_pending \cup {id}
             /\ UNCHANGED <<processing_queue, map_status_label>>
     ELSE /\ processing_queue' = FALSE
          /\ map_status_label' = <<"locations loaded (all done)",
                                   Cardinality(DOMAIN map_markers)>>
          /\ UNCHANGED <<geocoding_after_id, after_pending>>
  /\ ui' = UIIdleState
  /\ UNCHANGED <<case_log, geocache, phase, map_widget, map_markers,
                 grouped_cases_by_location, geocoding_queue, geocoding_thread,
                 threads, geocoded_results, focus_after_pending,
                 map_focal_state, provider, env, user_ops>>

\* ------------------------------------------------------------------ user

UserMay == phase = "mainloop" /\ UIIdle /\ user_ops < MaxUserOps

\* submit_case with the entry form holding form. With no case being edited
\* the case is added, the view refreshed and load_map_markers called. With a
\* case being edited the row is updated and push_view_edit_history called
\* (line 2796); when that raises, the handler ends there.
SubmitCase(form) ==
  /\ UserMay
  /\ user_ops' = user_ops + 1
  /\ UNCHANGED <<geocache, PipelineVars>>
  /\ LET case_data ==
           [k \in DOMAIN form \cup {"data_recovered"} |->
              IF k = "data_recovered" THEN YesNo(Get(form, k)) ELSE form[k]]
     IN IF editing_case_id # None
        THEN LET case_id_to_update == editing_case_id
                 old_case == get_case_by_id_db(case_log,
                                               TextParam(case_id_to_update))
                 updated == update_case_db(case_log,
                                           TextParam(case_id_to_update),
                                           case_data)
                 pushed == push_view_edit_history(
                             view_edit_undo_stack, view_edit_redo_stack,
                             <<case_id_to_update, old_case, updated.case_data>>)
             IN /\ case_log' = updated.cases
                /\ IF updated.ok /\ ~pushed.raised
                   THEN /\ view_edit_undo_stack' = pushed.undo_stack
                        /\ view_edit_redo_stack' = pushed.redo_stack
                        /\ editing_case_id' = None
                        /\ tree' = refresh_data_view(updated.cases)
                        /\ status' = <<"Case updated.">>
                        /\ LoadMapMarkersBegin("submit_case", updated.cases)
                   ELSE /\ status' = IF updated.ok THEN status
                                     ELSE <<"Failed to update case.">>
                        /\ UNCHANGED <<tree, editing_case_id,
                                       view_edit_undo_stack,
                                       view_edit_redo_stack, RefreshVars>>
        ELSE /\ case_log' = add_case_db(case_log, case_data)
             /\ editing_case_id' = None
             /\ tree' = refresh_data_view(add_case_db(case_log, case_data))
             /\ status' = <<"New case submitted.">>
             /\ UNCHANGED <<view_edit_undo_stack, view_edit_redo_stack>>
             /\ LoadMapMarkersBegin("submit_case",
                                    add_case_db(case_log, case_data))

\* edit_selected_case with the tree item at position item selected first: the
\* database id is taken from the item's first column and the case is loaded
\* into the entry form.
EditSelectedCase(item) ==
  /\ phase = "mainloop" /\ UIIdle
  /\ item \in 1..Len(tree)
  /\ LET db_id == tree[item].values[1]
         case_data == get_case_by_id_db(case_log, TextParam(db_id))
     IN editing_case_id' = IF DOMAIN case_data # {} THEN db_id
                           ELSE editing_case_id
  /\ UNCHANGED <<case_log, geocache, user_ops, tree, view_edit_undo_stack,
                 view_edit_redo_stack, status, RefreshVars, PipelineVars>>

\* The for loop of delete_selected_cases: delete_case_db called with each
\* selected Treeview item identifier in turn.
RECURSIVE DeleteEach(_, _)
DeleteEach(cases, selected_items) ==
  IF selected_items = <<>> THEN cases
  ELSE DeleteEach(delete_case_db(cases, TextParam(Head(selected_items))),
                  Tail(selected_items))

\* self.tree.selection() when the items at the positions in selected are
\* selected.
RECURSIVE Selection(_, _, _)
Selection(items, selected, i) ==
  IF i > Len(items) THEN <<>>
  ELSE IF i \in selected
       THEN <<items[i].iid>> \o Selection(items, selected, i + 1)
       ELSE Selection(items, selected, i + 1)

\* delete_selected_cases with the items at the positions in selected
\* selected, pw typed into the password dialog and confirm the answer to the
\* confirmation dialog.
DeleteSelectedCases(selected, pw, confirm) ==
  /\ UserMay
  /\ user_ops' = user_ops + 1
  /\ selected \subseteq 1..Len(tree)
  /\ UNCHANGED <<geocache, editing_case_id, view_edit_undo_stack,
                 view_edit_redo_stack, PipelineVars>>
  /\ LET selected_items == Selection(tree, selected, 1)
         remaining == DeleteEach(case_log, selected_items)
     IN IF selected_items = <<>>
        THEN UNCHANGED <<case_log, tree, status, RefreshVars>>
        ELSE IF ~Truthy(pw) \/ ~verify_password(pw) \/ ~confirm
        THEN /\ status' =
                  IF ~Truthy(pw)
                  THEN <<"Delete cancelled (no password entered).">>
                  ELSE IF ~verify_password(pw)
                  THEN <<"Delete cancelled (incorrect password).">>
                  ELSE <<"Delete cancelled by user.">>
             /\ UNCHANGED <<case_log, tree, RefreshVars>>
        ELSE /\ case_log' = remaining
             /\ tree' = refresh_data_view(remaining)
             /\ status' = <<"Deleted", Len(selected_items), 0>>
             /\ LoadMapMarkersBegin("delete_selected_cases", remaining)

\* The for loop of import_cases_from_xlsx: add_case_db for every row.
RECURSIVE AddEach(_, _)
AddEach(cases, rows) ==
  IF rows = <<>> THEN cases
  ELSE AddEach(add_case_db(cases, Head(rows)), Tail(rows))

\* import_cases_from_xlsx with a file chosen whose rows give the dicts rows
\* (cell values are stored as they are).
ImportCases(rows) ==
  /\ UserMay
  /\ user_ops' = user_ops + 1
  /\ case_log' = AddEach(case_log, rows)
  /\ tree' = refresh_data_view(AddEach(case_log, rows))
  /\ status' = <<"Import complete.", Len(rows), 0>>
  /\ LoadMapMarkersBegin("import_cases_from_xlsx", AddEach(case_log, rows))
  /\ UNCHANGED <<geocache, editing_case_id, view_edit_undo_stack,
                 view_edit_redo_stack, PipelineVars>>

\* push_view_edit_history called with a previous and a new dict.
PushViewEditHistory(prev_data, new_data) ==
  /\ phase = "mainloop" /\ UIIdle
  /\ Len(view_edit_undo_stack) < MaxHistory
  /\ LET pushed == push_view_edit_history(view_edit_undo_stack,
                                          view_edit_redo_stack,
                                          <<prev_data, new_data>>)
     IN /\ view_edit_undo_stack' = pushed.undo_stack
        /\ view_edit_redo_stack' = pushed.redo_stack
  /\ UNCHANGED <<case_log, geocache, user_ops, tree, editing_case_id, status,
                 RefreshVars, PipelineVars>>

\* undo_view_edit on the stacks and the table: with an empty undo stack only
\* a message box; otherwise the top entry moves to the redo stack and its
\* previous data, when it has an id, is written back with update_case_db
\* (which converts the data_recovered of that dict in place).
undo_view_edit(undo_stack, redo_stack, cases) ==
  IF undo_stack = <<>>
  THEN [undo_stack |-> undo_stack, redo_stack |-> redo_stack, cases |-> cases]
  ELSE LET prev_data == undo_stack[Len(undo_stack)].prev_data
           moved == MoveTop(undo_stack, redo_stack)
       IN IF "id" \in DOMAIN prev_data
          THEN LET updated == update_case_db(cases, IntParam(prev_data.id),
                                             prev_data)
               IN [undo_stack |-> moved.from,
                   redo_stack |-> TopConverted(moved.to, "prev_data",
                                               updated.case_data),
                   cases |-> updated.cases]
          ELSE [undo_stack |-> moved.from, redo_stack |-> moved.to,
                cases |-> cases]

\* redo_view_edit: the same with the stacks exchanged and the new data.
redo_view_edit(undo_stack, redo_stack, cases) ==
  IF redo_stack = <<>>
  THEN [undo_stack |-> undo_stack, redo_stack |-> redo_stack, cases |-> cases]
  ELSE LET new_data == redo_stack[Len(redo_stack)].new_data
           moved == MoveTop(redo_stack, undo_stack)
       IN IF "id" \in DOMAIN new_data
          THEN LET updated == update_case_db(cases, IntParam(new_data.id),
                                             new_data)
               IN [undo_stack |-> TopConverted(moved.to, "new_data",
                                               updated.case_data),
                   redo_stack |-> moved.from,
                   cases |-> updated.cases]
          ELSE [undo_stack |-> moved.to, redo_stack |-> moved.from,
                cases |-> cases]

\* The Undo button: undo_view_edit, and the view refreshed when a record was
\* written back.
UndoViewEdit ==
  /\ phase = "mainloop" /\ UIIdle
  /\ LET done == undo_view_edit(view_edit_undo_stack, view_edit_redo_stack,
                                case_log)
     IN /\ view_edit_undo_stack' = done.undo_stack
        /\ view_edit_redo_stack' = done.redo_stack
        /\ case_log' = done.cases
        /\ tree' = IF view_edit_undo_stack # <<>>
                      /\ "id" \in DOMAIN view_edit_undo_stack[
                                           Len(view_edit_undo_stack)].prev_data
                   THEN refresh_data_view(done.cases)
                   ELSE tree
  /\ UNCHANGED <<geocache, user_ops, editing_case_id, status, RefreshVars,
                 PipelineVars>>

\* The Redo button: redo_view_edit, and the view refreshed when a record was
\* written.
RedoViewEdit ==
  /\ phase = "mainloop" /\ UIIdle
  /\ LET done == redo_view_edit(view_edit_undo_stack, view_edit_redo_stack,
                                case_log)
     IN /\ view_edit_undo_stack' = done.undo_stack
        /\ view_edit_redo_stack' = done.redo_stack
        /\ case_log' = done.cases
        /\ tree' = IF view_edit_redo_stack # <<>>
                      /\ "id" \in DOMAIN view_edit_redo_stack[
                                           Len(view_edit_redo_stack)].new_data
                   THEN refresh_data_view(done.cases)
                   ELSE tree
  /\ UNCHANGED <<geocache, user_ops, editing_case_id, status, RefreshVars,
                 PipelineVars>>

\* select_marker_icon with a file chosen: load_map_markers with the case
\* records as they are.
SelectMarkerIcon ==
  /\ UserMay
  /\ user_ops' = user_ops + 1
  /\ LoadMapMarkersBegin("select_marker_icon", case_log)
  /\ UNCHANGED ViewVars
  /\ UNCHANGED <<case_log, geocache, phase, geocoding_thread,
                 geocoded_results, processing_queue, geocoding_after_id,
                 after_pending, focus_after_pending, map_focal_state,
                 map_status_label, provider, env>>

\* on_state_change of the focal-state combobox: the preference is stored and
\* the map focused.
OnStateChange(state) ==
  /\ UNCHANGED <<last_done, ViewVars>>
  /\ UserMay
  /\ user_ops' = user_ops + 1
  /\ map_focal_state' = state
  /\ provider' = focus_map_on_state(provider, state)
  /\ UNCHANGED <<case_log, geocache, phase, ui, map_widget, map_markers,
                 grouped_cases_by_location, geocoding_queue, geocoding_thread,
                 threads, geocoded_results, processing_queue,
                 geocoding_after_id, after_pending, focus_after_pending,
                 map_status_label, env>>

\* The after(500) callback of create_map_widgets: focus on the focal state.
FocusAfter ==
  /\ UNCHANGED <<last_done, ViewVars>>
  /\ EventLoop /\ UIIdle
  /\ focus_after_pending
  /\ focus_after_pending' = FALSE
  /\ provider' = focus_map_on_state(provider, map_focal_state)
  /\ UNCHANGED <<case_log, geocache, phase, ui, map_widget, map_markers,
                 grouped_cases_by_location, geocoding_queue, geocoding_thread,
                 threads, geocoded_results, processing_queue,
                 geocoding_after_id, after_pending, map_focal_state,
                 map_status_label, env, user_ops>>

\* clear_application_data_prompt with pw typed into the password dialog and
\* confirm the answer to the confirmation dialog. When both are given the
\* case_log table is recreated empty, the geocache rows are deleted, the
\* view is refreshed and load_map_markers runs; the success message box
\* follows.
ClearApplicationData(pw, confirm) ==
  /\ UserMay
  /\ user_ops' = user_ops + 1
  /\ UNCHANGED <<editing_case_id, view_edit_undo_stack, view_edit_redo_stack,
                 PipelineVars>>
  /\ IF ~Truthy(pw) \/ ~verify_password(pw) \/ ~confirm
     THEN /\ status' =
               IF ~Truthy(pw)
               THEN <<"Clear data cancelled (no password entered).">>
               ELSE IF ~verify_password(pw)
               THEN <<"Clear data cancelled (incorrect password).">>
               ELSE <<"Clear data cancelled by user.">>
          /\ UNCHANGED <<case_log, geocache, tree, RefreshVars>>
     ELSE /\ case_log' = <<>>
          /\ geocache' = {}
          /\ tree' = refresh_data_view(<<>>)
          /\ UNCHANGED status
          /\ LoadMapMarkersBegin("clear_application_data_prompt", <<>>)

\* The message box of clear_application_data_prompt is dismissed:
\* self.root.quit() ends the main loop and the process.
QuitAfterClear ==
  /\ UNCHANGED <<last_done, ViewVars>>
  /\ phase = "cleared" /\ UIIdle
  /\ phase' = "closed"
  /\ UNCHANGED <<case_log, geocache, ui, map_widget, map_markers,
                 grouped_cases_by_location, geocoding_queue, geocoding_thread,
                 threads, geocoded_results, processing_queue,
                 geocoding_after_id, after_pending, focus_after_pending,
                 map_focal_state, map_status_label, provider,
                 env, user_ops>>

\* on_closing, the definition bound to WM_DELETE_WINDOW (the last one of the
\* class): image references dropped, root.destroy(); the process ends.
on_closing ==
  /\ UNCHANGED <<last_done, ViewVars>>
  /\ phase = "mainloop" /\ UIIdle
  /\ phase' = "closed"
  /\ UNCHANGED <<case_log, geocache, ui, map_widget, map_markers,
                 grouped_cases_by_location, geocoding_queue, geocoding_thread,
                 threads, geocoded_results, processing_queue,
                 geocoding_after_id, after_pending, focus_after_pending,
                 map_focal_state, map_status_label, provider,
                 env, user_ops>>

\* ------------------------------------------------------------------ Next

Next ==
  \/ CreateMapWidgets
  \/ InitLoadMapMarkers
  \/ LoadMapMarkersFill
  \/ \E t \in DOMAIN threads : Worker(t)
  \/ \E id \in after_pending : ProcessResultsBegin(id)
  \/ ProcessResultsClear
  \/ ProcessResultsAlive
  \/ \E case \in SubmittedCases : SubmitCase(case)
  \/ SelectMarkerIcon
  \/ \E state \in FocalStates : OnStateChange(state)
  \/ FocusAfter
  \/ ClearApplicationData(StoredPassword, TRUE)
  \/ QuitAfterClear
  \/ on_closing

Spec == Init /\ [][Next]_vars

\* The same application with a provider that resolves every query and a
\* database whose writes succeed.
AllResolve == [answers |-> [k \in AllKeys |-> Matches], cache_writes |-> {TRUE}]

InitResolve ==
  /\ InitApp
  /\ InitConfig(InitialConfigs)
  /\ env = AllResolve

SpecResolve == InitResolve /\ [][Next]_vars

\* The same application started on the misses [J, B], with a provider whose
\* lookup of J fails (no match, or an exception) and whose lookup of B
\* succeeds.
FirstFails ==
  [answers |-> [k \in AllKeys |->
                  IF k = <<J, M>> THEN {NoMatch, Raise} ELSE Matches],
   cache_writes |-> {TRUE}]

InitFirstFails ==
  /\ InitApp
  /\ InitConfig({Config(<<CaseRecord(J, M), CaseRecord(B, M)>>, NoCache, "")})
  /\ env = FirstFails

SpecFirstFails == InitFirstFails /\ [][Next]_vars

\* The scheduling the run time gives: a started handler runs to its end, a
\* scheduled timer fires while the main loop runs, and a started thread keeps
\* running.
Fairness ==
  /\ WF_vars(CreateMapWidgets)
  /\ WF_vars(InitLoadMapMarkers)
  /\ WF_vars(LoadMapMarkersFill)
  /\ WF_vars(\E id \in after_pending : ProcessResultsBegin(id))
  /\ WF_vars(ProcessResultsClear)
  /\ WF_vars(ProcessResultsAlive)
  /\ WF_vars(\E t \in DOMAIN threads : Worker(t))

\* The same application with a provider whose matches all carry the same
\* coordinates (termination of polling does not depend on them).
OneAnswer ==
  [answers |-> [k \in AllKeys |-> {Match(<<30, 88>>), NoMatch, Raise}],
   cache_writes |-> {TRUE}]

InitLive ==
  /\ InitApp
  /\ InitConfig(InitialConfigs)
  /\ env = OneAnswer

LiveSpec == InitLive /\ [][Next]_vars /\ Fairness

\* The case store handlers on a database of two cases at the cached location
\* J|M (no worker thread is ever needed): the entry form, the View Data tab,
\* the import and the clearing of the application data.
StoreCases ==
  << [case_number |-> <<"1">>, city_of_offense |-> J, state_of_offense |-> M,
      offense_type |-> <<"F">>, data_recovered |-> Yes],
     [case_number |-> <<"2">>, city_of_offense |-> J, state_of_offense |-> M,
      offense_type |-> <<"T">>, data_recovered |-> No] >>

\* What the entry form can hold when it is submitted: the checkbox is a
\* boolean, the texts are stripped.
StoreForms ==
  [case_number : {<<"1">>, <<"3">>},
   city_of_offense : {J},
   state_of_offense : {M},
   offense_type : {<<"F">>, <<"T">>},
   data_recovered : {PyTrue, PyFalse}]

\* The rows of the files a user can import: one row, with a blank offense
\* and a Recovered? cell.
ImportFiles ==
  { << [case_number |-> <<"4">>, city_of_offense |-> J,
        state_of_offense |-> M, offense_type |-> <<" ">>,
        data_recovered |-> Yes] >> }

InitStore ==
  /\ InitApp
  /\ InitConfig({Config(<<>>, JCached, ""), Config(StoreCases, JCached, "")})
  /\ env = AllResolve

NextStore ==
  \/ CreateMapWidgets
  \/ InitLoadMapMarkers
  \/ LoadMapMarkersFill
  \/ \E form \in StoreForms : SubmitCase(form)
  \/ \E item \in 1..Len(tree) : EditSelectedCase(item)
  \/ \E selected \in SUBSET (1..Len(tree)), pw \in PasswordInputs,
        confirm \in BOOLEAN : DeleteSelectedCases(selected, pw, confirm)
  \/ \E rows \in ImportFiles : ImportCases(rows)
  \/ \E pw \in PasswordInputs, confirm \in BOOLEAN :
        ClearApplicationData(pw, confirm)
  \/ QuitAfterClear

SpecStore == InitStore /\ [][NextStore]_vars

\* The undo and redo stacks of the View Data tab on their own:
\* push_view_edit_history called with the row of a case as it was and its
\* new field values, undo_view_edit and redo_view_edit, in any order.
HistoryData ==
  [offense_type : {<<"F">>, <<"T">>}, data_recovered : {PyTrue}]
  \cup [id : {1}, offense_type : {<<"T">>}, data_recovered : {PyTrue}]

NextHistory ==
  \/ CreateMapWidgets
  \/ InitLoadMapMarkers
  \/ LoadMapMarkersFill
  \/ \E i \in 1..Len(case_log), new_data \in HistoryData :
        PushViewEditHistory(case_log[i], new_data)
  \/ UndoViewEdit
  \/ RedoViewEdit

SpecHistory == InitStore /\ [][NextHistory]_vars

\* Values of the offense_type column: missing, empty, blank, and types with
\* and without surrounding blanks.
OffenseValues == {None, <<>>, <<" ">>, <<"F">>, <<"F", " ">>, <<"T">>}

\* The start-up refreshes over case records that share the cached location
\* key J|M and carry any offense types.
InitSummary ==
  /\ InitApp
  /\ \E n \in 1..MaxGrouped : \E offense \in [1..n -> OffenseValues] :
       case_log = Table([i \in 1..n |->
                           [city_of_offense |-> J, state_of_offense |-> M,
                            offense_type |-> offense[i]]])
  /\ geocache = JCached
  /\ map_focal_state = ""
  /\ env = AllResolve

NextSummary ==
  \/ CreateMapWidgets
  \/ InitLoadMapMarkers
  \/ LoadMapMarkersFill

SpecSummary == InitSummary /\ [][NextSummary]_vars

\* The geocache functions on their own: add_cached_location_db called with
\* any key and coordinates, on a table that starts with the row for J|M; a
\* write succeeds, or fails and changes nothing.
CacheKeys == {LocationKey(city, state) : city \in {J, B},
                                        state \in {M, <<"M", "S">>}}

CacheCoords == {<<lat, lon>> : lat \in {30, 32}, lon \in {88, 90}}

WritesMayFail == [answers |-> [k \in AllKeys |-> Matches],
                  cache_writes |-> BOOLEAN]

\* The application with a provider that resolves every query and a database
\* whose geocache writes may fail.
InitWritesMayFail ==
  /\ InitApp
  /\ InitConfig(InitialConfigs)
  /\ env = WritesMayFail

SpecWritesMayFail == InitWritesMayFail /\ [][Next]_vars

InitCache ==
  /\ InitApp
  /\ InitConfig({Config(<<>>, JCached, "")})
  /\ env = WritesMayFail

CachePut(location_key, coords) ==
  /\ UNCHANGED <<last_done, ViewVars>>
  /\ \E written \in env.cache_writes :
       geocache' = IF written
                   THEN add_cached_location_db(geocache, location_key,
                                               coords[1], coords[2])
                   ELSE geocache
  /\ UNCHANGED <<case_log, phase, ui, map_widget, map_markers,
                 grouped_cases_by_location, geocoding_queue, geocoding_thread,
                 threads, geocoded_results, processing_queue,
                 geocoding_after_id, after_pending, focus_after_pending,
                 map_focal_state, map_status_label, provider, env, user_ops>>

NextCache == \E k \in CacheKeys, c \in CacheCoords : CachePut(k, c)

SpecCache == InitCache /\ [][NextCache]_vars


\* ------------------------------------------------------------------ claims

Range(seq) == {seq[i] : i \in 1..Len(seq)}

Alive == {t \in DOMAIN threads : threads[t].pc # "dead"}

\* C1: at most one geocode worker thread is alive at any time, and the live
\* one is the thread self.geocoding_thread names (a refresh that finds it
\* alive starts no other).
C1_OneWorkerAlive ==
  /\ Cardinality(Alive) <= 1
  /\ \A t \in Alive : t = geocoding_thread

\* A refresh has reused a live worker: the worker still holds the item it
\* popped while the refresh has put the same key on the queue again.
C1_Witness ==
  \E t \in Alive :
    /\ threads[t].item # <<>>
    /\ threads[t].item \in Range(geocoding_queue)
    /\ ui.pc # "load_fill"

\* C2: once a refresh has returned, the work queue never holds an item while
\* no worker thread is alive to process it.
C2_NoOrphanedWork ==
  (ui.pc # "load_fill" /\ geocoding_queue # <<>>) => Alive # {}

\* Nothing is running or scheduled any more: polling has ended, no timer is
\* pending and no worker is alive.
Quiescent ==
  /\ phase = "mainloop" /\ ui.pc = "idle"
  /\ processing_queue = FALSE
  /\ after_pending = {}
  /\ Alive = {}

\* C3: no worker result is lost: a triple leaves the results buffer only
\* after the for loop of a poll tick has passed it to _place_map_marker, and
\* none is left in the buffer once polling has ended and no tick is pending.
C3_NoResultLost ==
  [][/\ \A r \in Range(geocoded_results) :
          \/ r \in Range(geocoded_results')
          \/ ui.pc = "poll_clear" /\ r \in Range(ui.iterated)
     /\ Quiescent' => geocoded_results' = <<>>]_vars

\* The distinct (city, state) pairs of the case records whose trimmed city and
\* trimmed state are both non-empty.
DistinctPairs(cases) ==
  {p \in {<<strip(OrEmpty(c.city_of_offense)), strip(OrEmpty(c.state_of_offense))>> :
            c \in Range(cases)} : p[1] # <<>> /\ p[2] # <<>>}

\* Keys of the markers held by the map widget.
MarkerKeys == {m.key : m \in DOMAIN map_widget}

\* C4: once the refresh is done, the number of distinct markers placed equals
\* the number of distinct non-empty trimmed (city, state) pairs.
C4_MarkerPerPair ==
  Quiescent => Cardinality(MarkerKeys) = Cardinality(DistinctPairs(case_log))

\* C5: the map widget never holds two markers for the same Location Key.
C5_OneMarkerPerKey ==
  \A m1 \in DOMAIN map_widget :
    /\ map_widget[m1] = 1
    /\ \A m2 \in DOMAIN map_widget : m2.key = m1.key => m2 = m1

\* C6: when the window has been closed, no poll tick is left scheduled.
C6_TicksCancelledOnClose ==
  phase = "closed" => after_pending = {}

\* C9: a worker thread issues a provider call only if a sleep step has been
\* completed since the previous provider call of any worker thread.
C9_SleepBetweenCalls ==
  [][\A t \in DOMAIN threads :
        (threads[t].pc = "geocode" /\ t \in DOMAIN threads'
           /\ threads'[t].pc # "geocode")
        => provider.worker_calls # "called"]_vars

\* A worker is about to issue a provider call that is not the first one.
C9_Witness ==
  \E t \in Alive : threads[t].pc = "geocode" /\ provider.worker_calls = "slept"

\* C10: the UI thread never calls the geocoding provider.
C10_NoProviderCallOnUIThread ==
  provider.ui_calls = FALSE


\* C7: once no worker is alive, a poll tick that runs schedules no further
\* tick, so that (unless a new refresh is triggered or the window is closed)
\* polling ends: processing_queue is False and no poll tick is pending; and it
\* stays so until the next load_map_markers call.
C7_PollingEnds ==
  /\ [][(ui.pc = "poll_alive" /\ ui'.pc = "idle" /\ Alive = {})
          => (after_pending' = after_pending /\ processing_queue' = FALSE)]_vars
  /\ (phase = "mainloop" /\ Alive = {})
       ~> (Quiescent \/ ui.pc = "load_fill" \/ phase = "closed")
  /\ [][Quiescent => (Quiescent' \/ ui'.pc = "load_fill" \/ phase' = "closed")]_vars

\* A worker has run and terminated, and the poll tick that found it dead has
\* ended polling.
C7_Witness ==
  /\ Quiescent
  /\ geocoding_thread # 0
  /\ map_status_label[1] = "locations loaded (all done)"

\* C8: with misses [J, B] where the lookup of J fails and the lookup of B
\* succeeds (its coordinates are cached), B has its marker once the refresh is
\* done.
C8_SecondStillPlaced ==
  (Quiescent /\ LocationKey(B, M) \in CachedKeys(geocache)) => <<B, M>> \in MarkerKeys

\* A step of a worker thread: a live thread's position changes.
WorkerStep ==
  \E t \in Alive : t \in DOMAIN threads' /\ threads'[t].pc # threads[t].pc

\* C11: every step of the worker thread leaves the UI state unchanged: the
\* markers on the map, self.map_markers, the status text and the other
\* attributes the UI thread owns.
C11_WorkerLeavesUIState ==
  [][WorkerStep =>
       UNCHANGED <<map_widget, map_markers, map_status_label,
                   grouped_cases_by_location, geocoding_thread,
                   processing_queue, geocoding_after_id, after_pending,
                   focus_after_pending, map_focal_state, case_log, ui,
                   phase>>]_vars

\* A worker has appended a result while markers are on the map.
C11_Witness ==
  /\ map_widget # EmptyMap
  /\ geocoded_results # <<>>
  /\ \E t \in Alive : threads[t].pc = "sleep"

\* The work items waiting to be popped: those on the Queue
\* self.geocoding_queue names and those on an old Queue a worker still holds.
Waiting ==
  Range(geocoding_queue)
    \cup UNION {Range(threads[t].old) : t \in DOMAIN threads}

\* C12: every work item a refresh has put on the work queue is popped and
\* passed to the geocoding client exactly once: a waiting item leaves the
\* queue only when a worker pops it to geocode it, and none is left waiting
\* when polling has ended.
C12_ItemGeocodedOnce ==
  [][/\ \A k \in Waiting :
          \/ k \in Waiting'
          \/ \E t \in Alive :
               /\ threads[t].pc = "get_nowait"
               /\ t \in DOMAIN threads'
               /\ threads'[t].pc = "geocode" /\ threads'[t].item = k
     /\ Quiescent' => geocoding_queue' = <<>>]_vars

\* A step of load_map_markers.
RefreshStep ==
  \/ ui.pc = "idle" /\ ui'.pc = "load_fill"
  \/ ui.pc = "load_fill" /\ ui'.pc = "idle"

\* C13: a refresh that starts while a worker is alive reuses that worker and
\* does not interrupt it: the worker keeps its position and the item in hand,
\* and the Queue it has loaded loses no item, so a waiting item of the
\* previous refresh's queue can still be popped and geocoded after the new
\* refresh.
C13_RefreshKeepsWorker ==
  [][RefreshStep =>
       \A t \in Alive :
         /\ t \in DOMAIN threads'
         /\ threads'[t].pc = threads[t].pc
         /\ threads'[t].item = threads[t].item
         /\ threads[t].ref # "none" =>
              Range(HeldQueue(t)) \subseteq Range(HeldQueue(t)')
         /\ geocoding_thread' = geocoding_thread]_vars

\* A worker has popped an item of a replaced queue and geocoded it, and the
\* item's location is no longer among the case records.
C13_Witness ==
  \E t \in Alive :
    /\ threads[t].stale
    /\ threads[t].pc = "cache"
    /\ threads[t].item \notin DistinctPairs(case_log)

\* The step in which load_map_markers returns.
RefreshReturns == ui.pc = "load_fill" /\ ui'.pc = "idle"

C16_Upsert ==
  /\ \A r1 \in geocache, r2 \in geocache :
       r1.location_key = r2.location_key => r1 = r2
  /\ \A k \in CacheKeys, c1 \in CacheCoords, c2 \in CacheCoords :
       LET twice == add_cached_location_db(
                      add_cached_location_db(geocache, k, c1[1], c1[2]),
                      k, c2[1], c2[2])
       IN /\ get_cached_location_db(twice, k) = c2
          /\ Cardinality(RowsOf(twice, k)) = 1
          /\ \A k2 \in CachedKeys(geocache) \ {k} :
               get_cached_location_db(twice, k2)
                 = get_cached_location_db(geocache, k2)

\* Every key has been written, and J|M, which had a row from the start, more
\* than once: it has one row, with the coordinates written last.
C16_Witness ==
  /\ CachedKeys(geocache) = CacheKeys
  /\ RowsOf(geocache, LocationKey(J, M))
       = {CacheRow(LocationKey(J, M), 30, 90)}

\* The step in which clear_application_data_prompt clears the database.
ClearStep ==
  ui.pc = "idle" /\ ui'.caller = "clear_application_data_prompt"

MarkerSet == DOMAIN map_widget

\* C18: refresh idempotence: a refresh that began when the previous one had
\* finished, with the same case records, leaves the same marker set (same
\* location keys, same coordinates) once it has finished.
C18_RefreshIdempotent ==
  (Quiescent /\ last_done.valid) => MarkerSet = last_done.markers

\* C19: a refresh over an empty set of case records places no marker, puts
\* nothing on the work queue, starts no worker and schedules no poll tick.
C19_EmptyRefresh ==
  [][(RefreshReturns /\ case_log = <<>>) =>
       /\ map_widget' = EmptyMap
       /\ map_markers' = EmptyMap
       /\ geocoding_queue' = <<>>
       /\ UNCHANGED <<threads, geocoding_thread, geocoding_after_id,
                      after_pending>>
       /\ processing_queue' = FALSE]_vars

\* The application has started on an empty case_log table: both start-up
\* refreshes have run, and no worker and no poll tick exist.
C19_Witness ==
  /\ phase = "mainloop" /\ ui.pc = "idle"
  /\ case_log = <<>>
  /\ map_widget = EmptyMap
  /\ geocoding_thread = 0
  /\ after_pending = {}

\* The distinct location keys of the case records that have no cache entry.
Uncached ==
  {k \in DistinctPairs(case_log) :
     RowsOf(geocache, LocationKey(k[1], k[2])) = {}}

\* C20: a refresh puts exactly one work item on the queue for every distinct
\* uncached location key, however many case records share the trimmed city
\* and state.
C20_OneItemPerKey ==
  [][RefreshReturns =>
       /\ Range(geocoding_queue') = Uncached
       /\ Len(geocoding_queue') = Cardinality(Uncached)]_vars

\* A refresh over two case records that share one trimmed city and state has
\* put one item on the queue.
C20_Witness ==
  /\ ui.pc = "idle"
  /\ Len(case_log) = 2
  /\ Cardinality(DistinctPairs(case_log)) = 1
  /\ Len(geocoding_queue) = 1

\* The worker step in which add_cached_location_db returns False: the worker
\* passes line 1372 and its key has no row afterwards.
FailedWrite(t) ==
  /\ threads[t].pc = "cache"
  /\ threads'[t].pc = "append"
  /\ LocationKey(threads[t].item[1], threads[t].item[2])
       \notin CachedKeys(geocache')

\* C21: when the lookup of a key succeeds and the cache write fails, the
\* key stays un-cached, the result is appended to the results buffer, a
\* result for an un-cached key that is in the buffer when polling has ended
\* has its marker on the map, and every refresh enqueues the un-cached keys
\* again.
C21_WriteFailureStillPlaced ==
  [][/\ \A t \in Alive :
          /\ FailedWrite(t) => geocache' = geocache
          /\ (threads[t].pc = "append" /\ threads'[t].pc # "append")
               => <<threads[t].item[1], threads[t].item[2],
                    threads[t].location>> \in Range(geocoded_results')
     /\ Quiescent' =>
          \A r \in Range(geocoded_results') :
            LocationKey(r[1], r[2]) \notin CachedKeys(geocache')
            => \E m \in DOMAIN map_widget' :
                 m.key = <<r[1], r[2]>> /\ m.position = r[3]
     /\ RefreshReturns => Uncached \subseteq Range(geocoding_queue')]_vars

\* The distinct non-empty trimmed offense types of the case records grouped
\* under a location key.
OffenseTypes(key) ==
  {strip(OrEmpty(case_log[i].offense_type)) :
     i \in {j \in 1..Len(case_log) :
              /\ strip(OrEmpty(case_log[j].city_of_offense)) = key[1]
              /\ strip(OrEmpty(case_log[j].state_of_offense)) = key[2]}}
  \ {<<>>}

\* C22: the summary of every marker lists exactly the sorted distinct
\* non-empty trimmed offense types of the case records grouped under its
\* key, each once, and is 'No offenses recorded' when there is none.
C22_MarkerSummary ==
  \A m \in DOMAIN map_widget :
    m.info.offenses = IF OffenseTypes(m.key) = {} THEN NoOffenses
                      ELSE join(<<",", " ">>, sorted(OffenseTypes(m.key)))

\* The password dialog was answered with the right password and the
\* confirmation dialog with yes.
Passes(pw, confirm) == Truthy(pw) /\ verify_password(pw) /\ confirm

\* A step of submit_case that has written to the case store.
SubmitStep == \E form \in StoreForms : SubmitCase(form)

\* A step of delete_selected_cases, with items selected, that has passed the
\* password and confirmation dialogs.
DeleteStep ==
  \E selected \in SUBSET (1..Len(tree)) \ {{}}, pw \in PasswordInputs,
     confirm \in BOOLEAN :
    Passes(pw, confirm) /\ DeleteSelectedCases(selected, pw, confirm)

\* A step of import_cases_from_xlsx that has added the rows of a file.
ImportStep == \E rows \in ImportFiles : ImportCases(rows)

\* C23: every successful data mutation (a case added, a case updated, cases
\* deleted, cases imported) is followed by a load_map_markers call before
\* the handler returns.
C23_MutationRefreshes ==
  [][(SubmitStep \/ DeleteStep \/ ImportStep)
       => ui'.pc = "load_fill"]_vars

\* The dialogs of a destructive operation were answered so that it must not
\* proceed: no password (cancelled or empty), a password other than the one
\* whose hash is stored (the only one verify_password accepts), or the
\* confirmation declined.
Rejected(pw, confirm) ==
  pw = None \/ pw = <<>> \/ pw # StoredPassword \/ ~confirm

\* C24: delete_selected_cases and clear_application_data_prompt leave the
\* case store and the geocode cache unchanged whenever no password is
\* entered, the password fails verification or the confirmation is declined.
C24_DestructiveGated ==
  [][\A pw \in PasswordInputs, confirm \in BOOLEAN :
       (/\ Rejected(pw, confirm)
        /\ \/ ClearApplicationData(pw, confirm)
           \/ \E selected \in SUBSET (1..Len(tree)) :
                DeleteSelectedCases(selected, pw, confirm))
         => UNCHANGED <<case_log, geocache>>]_vars

\* A wrong password has been typed into the dialog of
\* clear_application_data_prompt while the store and the cache hold rows.
C24_Witness ==
  /\ status = <<"Clear data cancelled (incorrect password).">>
  /\ case_log # <<>>
  /\ geocache # {}

\* C25: once delete_selected_cases has passed the password and confirmation
\* checks, every case record shown in a selected tree row (the record whose
\* database id the row displays) is gone from the case store, and the
\* reported deleted count equals the number of records removed.
C25_DeleteRemovesSelected ==
  [][\A selected \in SUBSET (1..Len(tree)) \ {{}}, pw \in PasswordInputs,
        confirm \in BOOLEAN :
       (Passes(pw, confirm) /\ DeleteSelectedCases(selected, pw, confirm))
         => /\ \A i \in selected : \A j \in 1..Len(case_log') :
                 Digits(case_log'[j].id) # tree[i].values[1]
            /\ status'[2] = Len(case_log) - Len(case_log')]_vars

\* A step of submit_case that has updated the case being edited.
EditStep == editing_case_id # None /\ SubmitStep

\* C26: after a successful edit through submit_case the edit is on top of
\* the undo stack, as the pair of the record before the edit and the
\* submitted data, and the redo stack is empty; undo_view_edit then writes
\* the record of that pair back, so that the stored record is what it was
\* before the edit.
C26_EditRecorded ==
  [][EditStep =>
       LET old_case == get_case_by_id_db(case_log, TextParam(editing_case_id))
       IN /\ view_edit_redo_stack' = <<>>
          /\ view_edit_undo_stack' # <<>>
          /\ view_edit_undo_stack'[Len(view_edit_undo_stack')].prev_data
               = old_case
          /\ update_case_db(case_log', IntParam(old_case.id), old_case).cases
               = case_log]_vars

\* The identities of the entries of a stack, bottom first.
Refs(stack) == [i \in 1..Len(stack) |-> stack[i].ref]

Written(cases, editing) ==
  IF editing # None THEN get_case_by_id_db(cases, TextParam(editing))
  ELSE cases[Len(cases)]

\* C28: a case submitted through submit_case, added or edited, is stored
\* with data_recovered = 'Yes' when the data-recovered checkbox is True and
\* with data_recovered = 'No' when it is False.
C28_DataRecoveredStored ==
  [][\A form \in StoreForms :
       SubmitCase(form) =>
         Written(case_log', editing_case_id).data_recovered
           = IF form.data_recovered = PyTrue THEN Yes ELSE No]_vars

\* Dicts update_case_db can be given: none, some or all of whose keys are
\* columns it updates, with values that differ from the stored ones.
UpdateData ==
  {<<>>}
  \cup [id : {9}]
  \cup [id : {9}, case_number : {<<"9">>}, created_at : {Now}]
  \cup [case_number : {<<"9">>}, offense_type : {<<"X">>}]
  \cup [id : {9}, case_number : {<<"9">>}, created_at : {Now},
        offense_type : {<<"X">>}, data_recovered : {PyTrue, Yes}]

\* The ids update_case_db can be given: integers and their texts, of rows
\* in the table and of none.
UpdateIds(cases) ==
  {IntParam(n) : n \in 1..(Len(cases) + 1)}
  \cup {TextParam(Digits(n)) : n \in 1..(Len(cases) + 1)}

\* C29: update_case_db never changes the id, case_number or created_at of a
\* record, never changes a record other than the one with the given id,
\* and returns False leaving the store as it is when the data has no field
\* other than id, case_number and created_at.
C29_UpdateKeepsIdentity ==
  \A case_id \in UpdateIds(case_log), case_data \in UpdateData :
    LET updated == update_case_db(case_log, case_id, case_data)
    IN /\ Len(updated.cases) = Len(case_log)
       /\ \A j \in 1..Len(case_log) :
            /\ updated.cases[j].id = case_log[j].id
            /\ updated.cases[j].case_number = case_log[j].case_number
            /\ updated.cases[j].created_at = case_log[j].created_at
            /\ ~MatchesId(case_log[j].id, case_id)
                 => updated.cases[j] = case_log[j]
       /\ DOMAIN case_data \subseteq {"id", "case_number", "created_at"}
            => ~updated.ok /\ updated.cases = case_log

\* undo_view_edit has written a record back with update_case_db while
\* another record is in the store.
C29_Witness ==
  /\ view_edit_redo_stack # <<>>
  /\ Len(case_log) > 1
  /\ \E i \in 1..Len(case_log) : case_log[i].data_recovered = <<>>

\* C30: at most one poll tick (_process_geocoding_results callback) is
\* pending at any time, and _geocoding_after_id identifies it.
C30_OnePollTick ==
  /\ Cardinality(after_pending) <= 1
  /\ after_pending # {} => geocoding_after_id \in after_pending

====
